---- MODULE Spec2Model ----
(***************************************************************************)
(* A model of the TIFF reader: the header parser, the IFD reader and the   *)
(* IFD chain walks of TiffParser, the PackBits decoders of Compression,    *)
(* and the window extractor open_bytes / open_pixels of TiffReader.        *)
(*                                                                         *)
(* A file is a sequence of bytes 0..255.  The stream's file pointer is a   *)
(* 0-based offset: the byte at offset p is file[p + 1].                    *)
(***************************************************************************)
EXTENDS Integers, Sequences, FiniteSets, TLC

VARIABLES
    file,      \* the bytes behind the RandomAccessInputStream
    fp,        \* the stream's file pointer
    little,    \* the stream's byte-order flag (TRUE = little-endian)
    parser,    \* the TiffParser's fields; state "unopened", "failed" or "open"
    res,       \* the record of the last completed call
    walk,      \* the local variables of a running n_ifds call
    buff,      \* the output buffer handed to unpackbits_stream
    dec        \* the local variables of a running unpackbits_stream call

vars == <<file, fp, little, parser, res, walk, buff, dec>>

(***************************************************************************)
(* Sequences of bytes.                                                     *)
(***************************************************************************)
Min(a, b) == IF a < b THEN a ELSE b

Max(a, b) == IF a > b THEN a ELSE b

Zeros(n) == [k \in 1..n |-> 0]

Fill(n, b) == [k \in 1..n |-> b]

\* s[from .. to), 0-based, as a Rust slice s[from..to]
Slice(s, from, to) == SubSeq(s, from + 1, to)

\* `let r = x;` followed by the statements F: x is evaluated once and named
Bind(x, F(_)) == F(x)

(***************************************************************************)
(* RandomAccessInputStream: typed reads at a pointer.                      *)
(***************************************************************************)
available(f, p) == IF p >= Len(f) THEN 0 ELSE Len(f) - p

CanRead(f, p, n) == p + n <= Len(f)

read_byte(f, p) == f[p + 1]

read_short(f, p, le) ==
    IF le THEN read_byte(f, p) + 256 * read_byte(f, p + 1)
          ELSE 256 * read_byte(f, p) + read_byte(f, p + 1)

read_u32(f, p, le) ==
    IF le THEN read_short(f, p, le) + 65536 * read_short(f, p + 2, le)
          ELSE 65536 * read_short(f, p, le) + read_short(f, p + 2, le)

(***************************************************************************)
(* TiffParser::init_stream and TiffParser::new.                            *)
(***************************************************************************)
HeaderErr(msg, pos, le) ==
    [ok |-> FALSE, err |-> msg, is_bt |-> FALSE, first_offset |-> 0,
     is_le |-> le, pos |-> pos]

\* The stream is marked, rewound to 0 and read; on success the pointer is
\* reset to the mark, on failure it stays where the failing read left it.
init_stream(f, p0, le0) ==
    IF ~CanRead(f, 0, 1) THEN HeaderErr("UnexpectedEof", 0, le0)
    ELSE IF ~CanRead(f, 1, 1) THEN HeaderErr("UnexpectedEof", 1, le0)
    ELSE LET c1 == read_byte(f, 0)
             c2 == read_byte(f, 1)
         IN  IF ~((c1 = 73 /\ c2 = 73) \/ (c1 = 77 /\ c2 = 77))
             THEN HeaderErr("First two bytes incorrect", 2, le0)
             ELSE LET is_le == (c1 = 73)
                  IN  IF ~CanRead(f, 2, 2) THEN HeaderErr("UnexpectedEof", 2, is_le)
                      ELSE LET magic == read_short(f, 2, is_le)
                           IN  IF magic \notin {42, 43}
                               THEN HeaderErr("Invalid magic number", 4, is_le)
                               ELSE IF ~CanRead(f, 4, 4)
                               THEN HeaderErr("UnexpectedEof", 4, is_le)
                               ELSE [ok |-> TRUE, err |-> "",
                                     is_bt |-> (magic = 43),
                                     first_offset |-> read_u32(f, 4, is_le),
                                     is_le |-> is_le, pos |-> p0]

Unopened ==
    [state |-> "unopened", is_big_tiff |-> FALSE, bytes_per_entry |-> 0,
     first_ifd_offset |-> 0]

NoRes == [op |-> "none", args |-> <<>>, status |-> "none", err |-> "", val |-> <<>>]

Result(op, args, status, err, val) ==
    [op |-> op, args |-> args, status |-> status, err |-> err, val |-> val]

NoWalk == [pc |-> "idle", count |-> 0, next |-> 0, trail |-> <<>>]

NoDec == [pc |-> "idle", curr_byte_idx |-> 0, expected_byte_count |-> 0]

\* TiffParser::new(file)
New ==
    /\ parser.state = "unopened"
    /\ LET h == init_stream(file, fp, little)
       IN  /\ parser' = IF h.ok
                        THEN [state |-> "open", is_big_tiff |-> h.is_bt,
                              bytes_per_entry |-> IF h.is_bt THEN 16 ELSE 12,
                              first_ifd_offset |-> h.first_offset]
                        ELSE [Unopened EXCEPT !.state = "failed"]
           /\ fp' = h.pos
           /\ little' = h.is_le
           /\ res' = Result("new", <<>>, IF h.ok THEN "ok" ELSE "err", h.err, <<>>)
    /\ UNCHANGED <<file, walk, buff, dec>>

(***************************************************************************)
(* Files for the header parser: the headers of well-formed classic TIFF    *)
(* and BigTIFF files, headers with wrong byte-order marks or magic         *)
(* numbers, and every truncation of them.                                  *)
(***************************************************************************)
E16(v, le) == IF le THEN <<v % 256, v \div 256>> ELSE <<v \div 256, v % 256>>

E32(v, le) ==
    IF le THEN E16(v % 65536, le) \o E16(v \div 65536, le)
          ELSE E16(v \div 65536, le) \o E16(v % 65536, le)

E64(v, le) == IF le THEN E32(v, le) \o E32(0, le) ELSE E32(0, le) \o E32(v, le)

OrderMark(le) == IF le THEN <<73, 73>> ELSE <<77, 77>>

EncodeHeader(le, big, first) ==
    IF big THEN OrderMark(le) \o E16(43, le) \o E16(8, le) \o E16(0, le) \o E64(first, le)
           ELSE OrderMark(le) \o E16(42, le) \o E32(first, le)

MaxFirst == 3

FirstOffsets == {8 * k : k \in 1..MaxFirst} \cup {16, 300}

GoodHeaders ==
    {EncodeHeader(le, big, first) : le \in BOOLEAN, big \in BOOLEAN, first \in FirstOffsets}

BadHeaders ==
    {<<73, 77>> \o E16(42, TRUE) \o E32(8, TRUE),
     <<77, 73>> \o E16(42, FALSE) \o E32(8, FALSE),
     <<0, 0>> \o E16(42, TRUE) \o E32(8, TRUE),
     OrderMark(TRUE) \o E16(42, FALSE) \o E32(8, TRUE),
     OrderMark(FALSE) \o E16(43, TRUE) \o E32(8, FALSE),
     OrderMark(TRUE) \o E16(44, TRUE) \o E32(8, TRUE),
     OrderMark(FALSE) \o E16(0, FALSE) \o E32(8, FALSE)}

Prefixes(h) == {SubSeq(h, 1, k) : k \in 0..Len(h)}

HeaderFiles == UNION {Prefixes(h) : h \in GoodHeaders \cup BadHeaders}

InitHeader ==
    /\ file \in HeaderFiles
    /\ fp = 0
    /\ little = FALSE
    /\ parser = Unopened
    /\ res = NoRes
    /\ walk = NoWalk
    /\ buff = <<>>
    /\ dec = NoDec

NextHeader == New

SpecHeader == InitHeader /\ [][NextHeader]_vars

(***************************************************************************)
(* What the header says, read as the format defines it: the byte-order     *)
(* mark, the 16-bit magic and, for BigTIFF, two 16-bit fields and a 64-bit *)
(* offset.  Offsets above 2^31 are outside the files modelled.             *)
(***************************************************************************)
HeaderOrderKnown(f) ==
    /\ Len(f) >= 2
    /\ \/ (f[1] = 73 /\ f[2] = 73)
       \/ (f[1] = 77 /\ f[2] = 77)

HeaderIsLe(f) == f[1] = 73

HeaderComplete(f) ==
    /\ HeaderOrderKnown(f)
    /\ Len(f) >= 4
    /\ \/ read_short(f, 2, HeaderIsLe(f)) = 42 /\ Len(f) >= 8
       \/ read_short(f, 2, HeaderIsLe(f)) = 43 /\ Len(f) >= 16

HeaderIsBig(f) == read_short(f, 2, HeaderIsLe(f)) = 43

HeaderFirstIfd(f) ==
    IF HeaderIsBig(f)
    THEN IF HeaderIsLe(f) THEN read_u32(f, 8, TRUE) ELSE read_u32(f, 12, FALSE)
    ELSE read_u32(f, 4, HeaderIsLe(f))

\* C4: 'II' selects little-endian and 'MM' big-endian, anything else fails
\* with the invalid-magic error; magic 42 gives classic TIFF with the 32-bit
\* first-IFD offset, magic 43 gives BigTIFF with the 64-bit first-IFD offset
\* read after the two reserved 16-bit fields.
C4_HeaderParsed ==
    res.op = "new" =>
        /\ (Len(file) >= 2 /\ ~HeaderOrderKnown(file)) =>
               (res.status = "err" /\ res.err = "First two bytes incorrect")
        /\ HeaderComplete(file) =>
               /\ res.status = "ok"
               /\ little = HeaderIsLe(file)
               /\ parser.is_big_tiff = HeaderIsBig(file)
               /\ parser.first_ifd_offset = HeaderFirstIfd(file)

(***************************************************************************)
(* ifd.rs: Tag, Type, IFD::size_of, Datum and its conversions.             *)
(***************************************************************************)
KnownTags ==
    {256, 257, 258, 259, 262, 266, 273, 274, 277, 278, 279, 282, 283, 284, 296, 338, 339}

\* Tag::from_short: an unknown code becomes Tag::Other (0)
Tag_from_short(val) == IF val \in KnownTags THEN val ELSE 0

\* Type::from_short is Some exactly on these codes
TypeCodes == {1, 2, 3, 4, 5, 7, 16}

\* the per-element size IFD::size_of multiplies by
ElemSize(kind) ==
    CASE kind \in {1, 2, 7} -> 1
      [] kind = 3 -> 2
      [] kind = 4 -> 4
      [] kind \in {5, 16} -> 8

size_of(kind, count) == ElemSize(kind) * count

Datum(variant, v) == [variant |-> variant, v |-> v]

to_u16(d) ==
    IF d.variant \in {"U8", "U16"} /\ Len(d.v) > 0
    THEN [some |-> TRUE, v |-> d.v[1]]
    ELSE [some |-> FALSE, v |-> 0]

to_vec_u16(d) ==
    IF d.variant \in {"U8", "U16"}
    THEN [some |-> TRUE, v |-> d.v]
    ELSE [some |-> FALSE, v |-> <<>>]

to_vec_u32(d) ==
    IF d.variant \in {"U8", "U16", "U32"}
    THEN [some |-> TRUE, v |-> d.v]
    ELSE [some |-> FALSE, v |-> <<>>]

(***************************************************************************)
(* TiffParser::read_datum: count elements of the kind, read at p.          *)
(***************************************************************************)
DatumVariant(kind) ==
    CASE kind \in {1, 7} -> "U8"
      [] kind = 2 -> "STR"
      [] kind = 3 -> "U16"
      [] kind = 4 -> "U32"
      [] kind = 5 -> "RAT"
      [] kind = 16 -> "U64"

\* the value of one element at p (64-bit values are read by their low word)
ReadElem(f, p, le, kind) ==
    CASE kind \in {1, 2, 7} -> read_byte(f, p)
      [] kind = 3 -> read_short(f, p, le)
      [] kind = 4 -> read_u32(f, p, le)
      [] kind = 5 -> <<read_u32(f, p, le), read_u32(f, p + 4, le)>>
      [] kind = 16 -> IF le THEN read_u32(f, p, le) ELSE read_u32(f, p + 4, le)

read_datum(f, p, le, kind, count) ==
    IF ~CanRead(f, p, size_of(kind, count))
    THEN [ok |-> FALSE, datum |-> Datum("U8", <<>>), pos |-> Max(p, Len(f))]
    ELSE [ok |-> TRUE,
          datum |-> Datum(DatumVariant(kind),
                          [k \in 1..count |-> ReadElem(f, p + (k - 1) * ElemSize(kind), le, kind)]),
          pos |-> p + size_of(kind, count)]

(***************************************************************************)
(* TiffParser::read_ifd.  An entry keeps, beside the fields of Entry, the  *)
(* stream positions at which its parse began (at) and ended (end).         *)
(***************************************************************************)
MkEntry(tag, kind, count, is_offset, offset, datum, at, end) ==
    [tag |-> tag, kind |-> kind, count |-> count, is_offset |-> is_offset,
     offset |-> offset, datum |-> datum, at |-> at, end |-> end]

NoIfd == [entries |-> <<>>, next_ifd_offset |-> 0]

IfdErr(msg, pos) == [ok |-> FALSE, err |-> msg, ifd |-> NoIfd, pos |-> pos]

\* the payload is an offset when it does not fit the four payload bytes
PayloadIsOffset(n_bytes) == n_bytes > 4

RECURSIVE ReadEntries(_, _, _, _, _)
ReadEntries(f, p, le, n, acc) ==
    IF n = 0 THEN [ok |-> TRUE, err |-> "", entries |-> acc, pos |-> p]
    ELSE IF ~CanRead(f, p, 2)
    THEN [ok |-> FALSE, err |-> "UnexpectedEof", entries |-> acc, pos |-> p]
    ELSE IF ~CanRead(f, p + 2, 2)
    THEN [ok |-> FALSE, err |-> "UnexpectedEof", entries |-> acc, pos |-> p + 2]
    ELSE
      LET tag == Tag_from_short(read_short(f, p, le))
          kind == read_short(f, p + 2, le)
      IN  IF kind \notin TypeCodes
          THEN [ok |-> FALSE, err |-> "Failed Parse Type", entries |-> acc, pos |-> p + 4]
          ELSE IF ~CanRead(f, p + 4, 4)
          THEN [ok |-> FALSE, err |-> "UnexpectedEof", entries |-> acc, pos |-> p + 4]
          ELSE
            LET count == read_u32(f, p + 4, le)
                n_bytes == size_of(kind, count)
            IN  IF PayloadIsOffset(n_bytes)
                THEN IF ~CanRead(f, p + 8, 4)
                     THEN [ok |-> FALSE, err |-> "UnexpectedEof", entries |-> acc,
                           pos |-> p + 8]
                     ELSE ReadEntries(f, p + 12, le, n - 1,
                              Append(acc, MkEntry(tag, kind, count, TRUE,
                                                  read_u32(f, p + 8, le),
                                                  Datum("U8", <<>>), p, p + 12)))
                ELSE LET d == read_datum(f, p + 8, le, kind, count)
                     IN  IF ~d.ok
                         THEN [ok |-> FALSE, err |-> "", entries |-> acc, pos |-> d.pos]
                         ELSE ReadEntries(f, d.pos + (4 - n_bytes), le, n - 1,
                                  Append(acc, MkEntry(tag, kind, count, FALSE, 0,
                                                      d.datum, p, d.pos + (4 - n_bytes))))

read_ifd(f, p, le) ==
    IF ~CanRead(f, p, 2) THEN IfdErr("UnexpectedEof", p)
    ELSE Bind(ReadEntries(f, p + 2, le, read_short(f, p, le), <<>>), LAMBDA es :
         IF ~es.ok THEN IfdErr(es.err, es.pos)
         ELSE IF ~CanRead(f, es.pos, 4) THEN IfdErr("UnexpectedEof", es.pos)
         ELSE [ok |-> TRUE, err |-> "",
               ifd |-> [entries |-> es.entries,
                        next_ifd_offset |-> read_u32(f, es.pos, le)],
               pos |-> es.pos + 4])

\* IFD::get_entry on the map IFD::new builds: of two entries with one tag
\* the later insert wins
HasEntry(ifd, tag) == \E k \in 1..Len(ifd.entries) : ifd.entries[k].tag = tag

get_entry(ifd, tag) ==
    LET ks == {k \in 1..Len(ifd.entries) : ifd.entries[k].tag = tag}
    IN  ifd.entries[CHOOSE k \in ks : \A j \in ks : j <= k]

(***************************************************************************)
(* TiffParser::nth_ifd.  trail lists the offsets the walk has read an IFD  *)
(* at, in order.                                                           *)
(***************************************************************************)
WalkRes(status, err, ifd, pos, trail) ==
    [status |-> status, err |-> err, ifd |-> ifd, pos |-> pos, trail |-> trail]

\* a walk that stops one link early
LastLinkShort(i) == i - 1

\* the last index the loop `for j in 1..i + 1` takes
LastLink(i) == i

RECURSIVE NthLoop(_, _, _, _, _, _, _)
NthLoop(f, le, curr_ifd, pos, j, i, trail) ==
    IF j > LastLink(i) THEN WalkRes("ok", "", curr_ifd, pos, trail)
    ELSE IF curr_ifd.next_ifd_offset = 0
    THEN WalkRes("err", "IFD idx out of bounds", NoIfd, pos, trail)
    ELSE Bind(read_ifd(f, curr_ifd.next_ifd_offset, le), LAMBDA r :
         IF ~r.ok
         THEN WalkRes("err", r.err, NoIfd, r.pos, Append(trail, curr_ifd.next_ifd_offset))
         ELSE NthLoop(f, le, r.ifd, r.pos, j + 1, i,
                      Append(trail, curr_ifd.next_ifd_offset)))

nth_ifd(f, le, first_ifd_offset, i) ==
    Bind(read_ifd(f, first_ifd_offset, le), LAMBDA r :
    IF ~r.ok THEN WalkRes("err", r.err, NoIfd, r.pos, <<first_ifd_offset>>)
    ELSE NthLoop(f, le, r.ifd, r.pos, 1, i, <<first_ifd_offset>>))

\* a seek that moves from where the pointer is
seek_rel(p, offset) == p + offset

\* istream.seek_abs(offset): the pointer after the seek, whatever it was
seek_abs(p, offset) == offset

\* TiffParser::nth_ifd(i), a whole call
Idle == res.op \in {"new", "idle"}

NthIfd(i) ==
    /\ parser.state = "open"
    /\ Idle
    /\ walk.pc = "idle"
    /\ \E r \in {nth_ifd(file, little, seek_abs(fp, parser.first_ifd_offset), i)} :
           /\ res' = Result("nth_ifd", <<i>>, r.status, r.err,
                            [ifd |-> r.ifd, trail |-> r.trail])
           /\ fp' = r.pos
    /\ UNCHANGED <<file, little, parser, walk, buff, dec>>

(***************************************************************************)
(* TiffParser::n_ifds, one action per read: the read of the first IFD,     *)
(* one turn of the while loop, and the return.                             *)
(***************************************************************************)
MaxWalk == 7

NIfdsStart ==
    /\ parser.state = "open"
    /\ Idle
    /\ walk.pc = "idle"
    /\ \E r \in {read_ifd(file, parser.first_ifd_offset, little)} :
           /\ fp' = r.pos
           /\ IF r.ok
              THEN /\ walk' = [pc |-> "loop", count |-> 1,
                               next |-> r.ifd.next_ifd_offset,
                               trail |-> <<parser.first_ifd_offset>>]
                   /\ res' = Result("n_ifds", <<>>, "running", "", 0)
              ELSE /\ walk' = NoWalk
                   /\ res' = Result("n_ifds", <<>>, "err", r.err, 0)
    /\ UNCHANGED <<file, little, parser, buff, dec>>

NIfdsStep ==
    /\ walk.pc = "loop"
    /\ walk.next # 0
    /\ walk.count < MaxWalk
    /\ \E r \in {read_ifd(file, walk.next, little)} :
           /\ fp' = r.pos
           /\ IF r.ok
              THEN /\ walk' = [pc |-> "loop", count |-> walk.count + 1,
                               next |-> r.ifd.next_ifd_offset,
                               trail |-> Append(walk.trail, walk.next)]
                   /\ UNCHANGED res
              ELSE /\ walk' = NoWalk
                   /\ res' = Result("n_ifds", <<>>, "err", r.err, 0)
    /\ UNCHANGED <<file, little, parser, buff, dec>>

NIfdsReturn ==
    /\ walk.pc = "loop"
    /\ walk.next = 0
    /\ walk' = NoWalk
    /\ res' = Result("n_ifds", <<>>, "ok", "", walk.count)
    /\ UNCHANGED <<file, fp, little, parser, buff, dec>>

\* the caller takes the result; the parser is ready for the next call
Return ==
    /\ res.op \notin {"none", "new", "idle"}
    /\ res.status # "running"
    /\ res' = Result("idle", <<>>, "none", "", <<>>)
    /\ UNCHANGED <<file, fp, little, parser, walk, buff, dec>>

(***************************************************************************)
(* Files: an encoder of IFDs in the classic and the BigTIFF layout.  An    *)
(* entry is described by [tag, kind, vals]; a payload wider than the       *)
(* layout's offset field is placed after the IFD, in entry order.          *)
(***************************************************************************)
Desc(tag, kind, vals) == [tag |-> tag, kind |-> kind, vals |-> vals]

OffsetWidth(big) == IF big THEN 8 ELSE 4

EntrySize(big) == IF big THEN 20 ELSE 12

EncOffset(v, le, big) == IF big THEN E64(v, le) ELSE E32(v, le)

EncElem(kind, v, le) ==
    CASE kind = 3 -> E16(v, le)
      [] kind = 4 -> E32(v, le)
      [] kind = 5 -> E32(v[1], le) \o E32(v[2], le)
      [] kind = 16 -> E64(v, le)
      [] OTHER -> <<v>>

RECURSIVE EncVals(_, _, _)
EncVals(kind, vals, le) ==
    IF vals = <<>> THEN <<>>
    ELSE EncElem(kind, Head(vals), le) \o EncVals(kind, Tail(vals), le)

PayloadLen(d) == Len(d.vals) * (IF d.kind \in TypeCodes THEN ElemSize(d.kind) ELSE 1)

IfdBodySize(n, big) == IF big THEN 8 + 20 * n + 8 ELSE 2 + 12 * n + 4

RECURSIVE ExtSize(_, _)
ExtSize(ds, big) ==
    IF ds = <<>> THEN 0
    ELSE (IF PayloadLen(Head(ds)) > OffsetWidth(big) THEN PayloadLen(Head(ds)) ELSE 0)
         + ExtSize(Tail(ds), big)

IfdSize(ds, big) == IfdBodySize(Len(ds), big) + ExtSize(ds, big)

\* the entries of ds and the payloads placed from extAt on
RECURSIVE EncEntries(_, _, _, _)
EncEntries(ds, extAt, le, big) ==
    IF ds = <<>> THEN [body |-> <<>>, ext |-> <<>>]
    ELSE LET d == Head(ds)
             payload == EncVals(d.kind, d.vals, le)
             outside == Len(payload) > OffsetWidth(big)
             rest == EncEntries(Tail(ds), IF outside THEN extAt + Len(payload) ELSE extAt,
                                le, big)
             field == IF outside THEN EncOffset(extAt, le, big)
                      ELSE payload \o Zeros(OffsetWidth(big) - Len(payload))
         IN  [body |-> E16(d.tag, le) \o E16(d.kind, le)
                       \o EncOffset(Len(d.vals), le, big) \o field \o rest.body,
              ext |-> (IF outside THEN payload ELSE <<>>) \o rest.ext]

EncodeIfd(ds, base, next, le, big) ==
    LET e == EncEntries(ds, base + IfdBodySize(Len(ds), big), le, big)
    IN  (IF big THEN E64(Len(ds), le) ELSE E16(Len(ds), le))
        \o e.body \o EncOffset(next, le, big) \o e.ext

\* the header of a file whose IFDs are laid out classic or BigTIFF; magic43
\* with a classic layout is a classic file that announces itself as BigTIFF
FileHeader(le, magic43, big) ==
    IF big THEN EncodeHeader(le, TRUE, 16)
    ELSE OrderMark(le) \o E16(IF magic43 THEN 43 ELSE 42, le) \o E32(8, le)

RECURSIVE ChainOffset(_, _, _, _)
\* the offset of the k-th IFD (1-based) of a chain that starts at first
ChainOffset(chain, k, first, big) ==
    IF k = 1 THEN first
    ELSE ChainOffset(chain, k - 1, first, big) + IfdSize(chain[k - 1], big)

RECURSIVE EncChainFrom(_, _, _, _, _, _)
EncChainFrom(chain, k, first, last_next, le, big) ==
    IF k > Len(chain) THEN <<>>
    ELSE EncodeIfd(chain[k], ChainOffset(chain, k, first, big),
                   IF k = Len(chain) THEN last_next
                   ELSE ChainOffset(chain, k + 1, first, big),
                   le, big)
         \o EncChainFrom(chain, k + 1, first, last_next, le, big)

\* back = 0: the chain ends with next_offset 0; back = j: the last IFD links
\* to the j-th IFD, so that the chain cycles
EncodeChain(chain, back, le, magic43, big) ==
    LET first == IF big THEN 16 ELSE 8
    IN  FileHeader(le, magic43, big)
        \o EncChainFrom(chain, 1, first,
                        IF back = 0 THEN 0 ELSE ChainOffset(chain, back, first, big),
                        le, big)

MaxChain == 3

MaxCount == 5

\* the k-th IFD of a chain file: one ImageWidth entry of value 10 + k
ChainIfd(k) == <<Desc(256, 3, <<10 + k>>)>>

ChainFiles ==
    UNION {{EncodeChain([k \in 1..n |-> ChainIfd(k)], back, le, FALSE, FALSE) :
               back \in 0..n, le \in BOOLEAN} : n \in 1..MaxChain}

ElemVal(kind, k) == IF kind = 5 THEN <<k, 1>> ELSE k

\* a file of one IFD with an entry of every (kind, count), followed by an
\* ImageWidth entry
EntryIfd(kind, count) ==
    <<Desc(258, kind, [k \in 1..count |-> ElemVal(kind, k)]), Desc(256, 3, <<7>>)>>

Layouts == {<<FALSE, FALSE>>, <<TRUE, FALSE>>, <<TRUE, TRUE>>}

EntryFiles ==
    {EncodeChain(<<EntryIfd(kind, count)>>, 0, le, lay[1], lay[2]) :
        kind \in TypeCodes \cup {6}, count \in 0..MaxCount, le \in BOOLEAN, lay \in Layouts}

InitChain ==
    /\ file \in ChainFiles \cup EntryFiles
    /\ fp = 0
    /\ little = FALSE
    /\ parser = Unopened
    /\ res = NoRes
    /\ walk = NoWalk
    /\ buff = <<>>
    /\ dec = NoDec

NextChain ==
    \/ New
    \/ \E i \in (0 - 1)..(MaxChain + 1) : NthIfd(i)
    \/ NIfdsStart
    \/ NIfdsStep
    \/ NIfdsReturn
    \/ Return

SpecChain == InitChain /\ [][NextChain]_vars

(***************************************************************************)
(* The chain of the file, link by link: the offset reached after k links   *)
(* from first_ifd_offset, reading each next_offset with the IFD reader.    *)
(***************************************************************************)
IfdAt(off) == read_ifd(file, off, little)

RECURSIVE OffsetAfter(_)
OffsetAfter(k) ==
    IF k = 0 THEN parser.first_ifd_offset
    ELSE IfdAt(OffsetAfter(k - 1)).ifd.next_ifd_offset

\* the links 0..i-1 at which a walk of i links cannot go on: the IFD there
\* does not parse, or its next_offset is 0
Stops(i) ==
    {j \in 0..(i - 1) : ~IfdAt(OffsetAfter(j)).ok
                        \/ IfdAt(OffsetAfter(j)).ifd.next_ifd_offset = 0}

FirstStop(i) == CHOOSE j \in Stops(i) : \A k \in Stops(i) : j <= k

NoDup(s) == \A a, b \in 1..Len(s) : s[a] = s[b] => a = b

\* C3: nth_ifd(i) follows exactly i next-IFD links from first_ifd_offset and
\* returns the IFD reached there; when a link with next_offset 0 is met
\* before i links are followed it fails with the out-of-bounds error.
C3_NthIfdWalksLinks ==
    (res.op = "nth_ifd" /\ res.args[1] >= 0) =>
        LET i == res.args[1]
        IN  IF Stops(i) = {}
            THEN IF IfdAt(OffsetAfter(i)).ok
                 THEN /\ res.status = "ok"
                      /\ res.val.ifd = IfdAt(OffsetAfter(i)).ifd
                      /\ res.val.trail = [k \in 1..(i + 1) |-> OffsetAfter(k - 1)]
                 ELSE res.status = "err" /\ res.err # "IFD idx out of bounds"
            ELSE IF IfdAt(OffsetAfter(FirstStop(i))).ok
                 THEN /\ res.status = "err"
                      /\ res.err = "IFD idx out of bounds"
                      /\ Len(res.val.trail) = FirstStop(i) + 1
                 ELSE res.status = "err" /\ res.err # "IFD idx out of bounds"

\* a chain of three IFDs on which series 0, 1 and 2 are found
C3_ChainOfThree ==
    /\ Stops(2) = {}
    /\ IfdAt(OffsetAfter(2)).ok
    /\ IfdAt(OffsetAfter(2)).ifd.next_ifd_offset = 0

\* C3 witness: on a chain of length 3 the request for series 3 has failed
\* out of bounds after the three IFDs were read
C3_Witness ==
    /\ res.op = "nth_ifd"
    /\ res.args = <<3>>
    /\ C3_ChainOfThree
    /\ res.status = "err"
    /\ res.err = "IFD idx out of bounds"
    /\ Len(res.val.trail) = 3

\* C3 witness of the successes: on a chain of length 3 series 2 is returned
C3_WitnessFound ==
    /\ res.op = "nth_ifd"
    /\ res.args = <<2>>
    /\ C3_ChainOfThree
    /\ res.status = "ok"
    /\ get_entry(res.val.ifd, 256).datum.v = <<13>>

\* C8: no chain walk reads an IFD at an offset it has already visited: a
\* chain that cycles makes n_ifds and nth_ifd stop with an error instead.
C8_WalksDetectCycles ==
    /\ NoDup(walk.trail)
    /\ res.op = "nth_ifd" => NoDup(res.val.trail)

\* C9: every parsed entry is inline exactly when size_of(kind, count) fits
\* the offset width (4 classic, 8 BigTIFF), and the stream advances by the
\* fixed entry size (12 classic, 20 BigTIFF) over each entry.
C9_EntryLayout ==
    (res.op = "nth_ifd" /\ res.status = "ok") =>
        \A k \in 1..Len(res.val.ifd.entries) :
            LET e == res.val.ifd.entries[k]
            IN  /\ e.is_offset <=> (size_of(e.kind, e.count) > OffsetWidth(parser.is_big_tiff))
                /\ e.end - e.at = EntrySize(parser.is_big_tiff)

\* the classic half of C9, which the reader does keep
C9_ClassicEntryLayout ==
    (res.op = "nth_ifd" /\ res.status = "ok" /\ ~parser.is_big_tiff) =>
        \A k \in 1..Len(res.val.ifd.entries) :
            LET e == res.val.ifd.entries[k]
            IN  /\ e.is_offset <=> (size_of(e.kind, e.count) > 4)
                /\ e.end - e.at = 12

(***************************************************************************)
(* Compression::unpackbits_stream, one action per turn of its while loop.  *)
(* The input stream is file read at fp; the output is buff.                *)
(***************************************************************************)
\* a run that is one copy short
RunLengthShort(count) == 256 - count

\* the number of copies a run control byte stands for
RunLength(count) == 256 - count + 1

\* the number of bytes a literal control byte stands for
LiteralLength(count) == count + 1

\* buff.get_mut(from..to) is Some exactly when the range lies in the buffer
InBuffer(b, from, to) == to <= Len(b)

\* b with the bytes of data written from index from (0-based) on
Overwrite(b, from, data) ==
    [k \in 1..Len(b) |->
        IF k > from /\ k <= from + Len(data) THEN data[k - from] ELSE b[k]]

\* istream.read(buf, offset) of n bytes: the outcomes, each the bytes that
\* reached buf and the pointer afterwards.  A read that crosses the end of
\* the input either delivers the bytes there are or fails at the offset.
stream_read(f, offset, n) ==
    IF CanRead(f, offset, n)
    THEN {[data |-> Slice(f, offset, offset + n), pos |-> offset + n]}
    ELSE {[data |-> Slice(f, Min(offset, Len(f)), Len(f)), pos |-> Max(offset, Len(f))],
          [data |-> <<>>, pos |-> offset]}

Looping ==
    /\ dec.pc = "loop"
    /\ dec.curr_byte_idx < dec.expected_byte_count
    /\ available(file, fp) # 0

\* byte == 128: continue
DecodeNoop ==
    /\ Looping
    /\ read_byte(file, fp) = 128
    /\ fp' = fp + 1
    /\ UNCHANGED <<file, little, parser, res, walk, buff, dec>>

\* byte > 128: one data byte, repeated
DecodeRun ==
    /\ Looping
    /\ read_byte(file, fp) > 128
    /\ LET count == read_byte(file, fp)
           idx == dec.curr_byte_idx
       IN  IF ~CanRead(file, fp + 1, 1)
           THEN /\ dec' = [dec EXCEPT !.pc = "done"]
                /\ res' = Result("unpackbits_stream", <<>>, "err", "UnexpectedEof", <<>>)
                /\ fp' = fp + 1
                /\ UNCHANGED buff
           ELSE /\ buff' = IF InBuffer(buff, idx, idx + RunLength(count))
                           THEN Overwrite(buff, idx,
                                          Fill(RunLength(count), read_byte(file, fp + 1)))
                           ELSE buff
                /\ dec' = [dec EXCEPT !.curr_byte_idx = idx + RunLength(count)]
                /\ fp' = fp + 2
                /\ UNCHANGED res
    /\ UNCHANGED <<file, little, parser, walk>>

\* byte < 128: the next bytes, verbatim
DecodeLiteral ==
    /\ Looping
    /\ read_byte(file, fp) < 128
    /\ LET count == read_byte(file, fp)
           idx == dec.curr_byte_idx
           offset == fp + 1
       IN  /\ IF InBuffer(buff, idx, idx + LiteralLength(count))
              THEN \E r \in stream_read(file, offset, LiteralLength(count)) :
                       /\ buff' = Overwrite(buff, idx, r.data)
                       /\ fp' = r.pos
              ELSE /\ buff' = buff
                   /\ fp' = offset
           /\ dec' = [dec EXCEPT !.curr_byte_idx = idx + LiteralLength(count)]
    /\ UNCHANGED <<file, little, parser, res, walk>>

\* the loop condition fails: Ok(())
DecodeReturn ==
    /\ dec.pc = "loop"
    /\ ~Looping
    /\ dec' = [dec EXCEPT !.pc = "done"]
    /\ res' = Result("unpackbits_stream", <<>>, "ok", "", <<>>)
    /\ UNCHANGED <<file, fp, little, parser, walk, buff>>

(***************************************************************************)
(* Compression::unpackbits, the decoder over slices.  An index outside a   *)
(* slice is a panic.                                                       *)
(***************************************************************************)
\* the buffer and the two indexes when the call ends
UnpackRes(status, out, in_idx, out_idx) ==
    [status |-> status, out |-> out, in_idx |-> in_idx, out_idx |-> out_idx]

RECURSIVE UnpackLoop(_, _, _, _, _, _)
UnpackLoop(in_buff, input_len, out_buff, output_len, in_idx, out_idx) ==
    IF ~(in_idx < input_len /\ out_idx < output_len)
    THEN UnpackRes("ok", out_buff, in_idx, out_idx)
    ELSE IF in_idx >= Len(in_buff) THEN UnpackRes("panic", out_buff, in_idx, out_idx)
    ELSE
      LET count == in_buff[in_idx + 1]
      IN  IF count = 128
          THEN UnpackLoop(in_buff, input_len, out_buff, output_len, in_idx + 1, out_idx)
          ELSE IF count > 128
          THEN IF in_idx + 1 >= Len(in_buff)
                  \/ ~InBuffer(out_buff, out_idx, out_idx + RunLength(count))
               THEN UnpackRes("panic", out_buff, in_idx, out_idx)
               ELSE UnpackLoop(in_buff, input_len,
                               Overwrite(out_buff, out_idx,
                                         Fill(RunLength(count), in_buff[in_idx + 2])),
                               output_len, in_idx + 2, out_idx + RunLength(count))
          ELSE IF in_idx + count + 2 > Len(in_buff)
                  \/ ~InBuffer(out_buff, out_idx, out_idx + LiteralLength(count))
               THEN UnpackRes("panic", out_buff, in_idx, out_idx)
               ELSE UnpackLoop(in_buff, input_len,
                               Overwrite(out_buff, out_idx,
                                         Slice(in_buff, in_idx + 1, in_idx + count + 2)),
                               output_len, in_idx + count + 2,
                               out_idx + LiteralLength(count))

unpackbits(in_buff, input_len, out_buff, output_len) ==
    UnpackLoop(in_buff, input_len, out_buff, output_len, 0, 0)

\* Compression::unpackbits(in_buff, input_len, out_buff, output_len) on the
\* same input and buffer, a whole call; an index outside a slice ends it
\* with a panic
Unpackbits ==
    /\ dec.pc = "loop"
    /\ dec.curr_byte_idx = 0
    /\ fp = 0
    /\ \E u \in {unpackbits(file, Len(file), buff, dec.expected_byte_count)} :
           /\ buff' = u.out
           /\ res' = Result("unpackbits", <<>>, u.status, "",
                            [in_idx |-> u.in_idx, out_idx |-> u.out_idx])
    /\ dec' = [dec EXCEPT !.pc = "done"]
    /\ UNCHANGED <<file, fp, little, parser, walk>>

MaxIn == 4

MaxOut == 4

PackAlphabet == {0, 1, 128, 254, 255}

RECURSIVE SeqsUpTo(_, _)
SeqsUpTo(S, n) ==
    IF n = 0 THEN {<<>>}
    ELSE LET shorter == SeqsUpTo(S, n - 1)
         IN  shorter \cup {Append(s, x) : s \in {t \in shorter : Len(t) = n - 1}, x \in S}

\* the input and the output of tests::test_unpackbits
TestInput == <<254, 170, 2, 128, 0, 42, 253, 170, 3, 128, 0, 42, 34, 247, 170>>

TestOutput ==
    <<170, 170, 170, 128, 0, 42, 170, 170, 170, 170, 128, 0, 42, 34>> \o Fill(10, 170)

InitPackBits ==
    /\ \/ /\ file \in SeqsUpTo(PackAlphabet, MaxIn)
          /\ \E expected \in 0..MaxOut, spare \in 0..1 :
                /\ dec = [pc |-> "loop", curr_byte_idx |-> 0,
                          expected_byte_count |-> expected]
                /\ buff = Zeros(expected + spare)
       \/ /\ file = TestInput
          /\ dec = [pc |-> "loop", curr_byte_idx |-> 0, expected_byte_count |-> 24]
          /\ buff = Zeros(24)
    /\ fp = 0
    /\ little = FALSE
    /\ parser = Unopened
    /\ res = NoRes
    /\ walk = NoWalk

NextPackBits ==
    \/ DecodeNoop
    \/ DecodeRun
    \/ DecodeLiteral
    \/ DecodeReturn
    \/ Unpackbits

SpecPackBits == InitPackBits /\ [][NextPackBits]_vars

(***************************************************************************)
(* PackBits as the format defines it: the decoding of a whole stream.      *)
(***************************************************************************)
RECURSIVE PackBitsComplete(_)
\* every run and literal of s has its data bytes
PackBitsComplete(s) ==
    IF s = <<>> THEN TRUE
    ELSE LET n == Head(s)
         IN  IF n = 128 THEN PackBitsComplete(Tail(s))
             ELSE IF n > 128
             THEN Len(s) >= 2 /\ PackBitsComplete(SubSeq(s, 3, Len(s)))
             ELSE Len(s) >= n + 2 /\ PackBitsComplete(SubSeq(s, n + 3, Len(s)))

RECURSIVE PackBitsDecoded(_)
PackBitsDecoded(s) ==
    IF s = <<>> THEN <<>>
    ELSE LET n == Head(s)
         IN  IF n = 128 THEN PackBitsDecoded(Tail(s))
             ELSE IF n > 128
             THEN Fill(257 - n, s[2]) \o PackBitsDecoded(SubSeq(s, 3, Len(s)))
             ELSE SubSeq(s, 2, n + 2) \o PackBitsDecoded(SubSeq(s, n + 3, Len(s)))

\* C5: control byte 128 emits nothing, 129..255 repeat the next byte
\* (257 - n) times, 0..127 copy the next (n + 1) bytes; for every input whose
\* decoded length equals the output buffer length the buffer ends up equal
\* to the decoding.
C5_PackBitsDecodes ==
    (/\ res.op = "unpackbits_stream"
     /\ PackBitsComplete(file)
     /\ Len(PackBitsDecoded(file)) = Len(buff)
     /\ dec.expected_byte_count = Len(buff)) =>
        /\ res.status = "ok"
        /\ buff = PackBitsDecoded(file)

\* C5 witness: the test's input has been decoded into its 24 bytes
C5_Witness ==
    /\ res.op = "unpackbits_stream"
    /\ file = TestInput
    /\ res.status = "ok"
    /\ buff = TestOutput

\* C6: a run or literal that would reach past the expected length of the
\* output makes the decode fail; it is never reported as Ok.
C6_OverrunIsFatal ==
    (res.op = "unpackbits_stream" /\ dec.curr_byte_idx > dec.expected_byte_count) =>
        res.status = "err"

(***************************************************************************)
(* TiffParser::read_entry and the typed tag accessors.  Each takes the     *)
(* stream pointer p and yields the pointer it leaves.                      *)
(***************************************************************************)
read_entry(f, p, le, ifd, tag) ==
    IF ~HasEntry(ifd, tag)
    THEN [ok |-> FALSE, err |-> "error", datum |-> Datum("U8", <<>>), pos |-> p]
    ELSE Bind(get_entry(ifd, tag), LAMBDA e :
         IF e.is_offset
         THEN Bind(read_datum(f, seek_abs(p, e.offset), le, e.kind, e.count), LAMBDA d :
              [ok |-> d.ok, err |-> "", datum |-> d.datum, pos |-> d.pos])
         ELSE [ok |-> TRUE, err |-> "", datum |-> e.datum, pos |-> p])

\* read_entry(..)?.to_u16().ok_or(msg)
TagU16(f, p, le, ifd, tag, msg) ==
    Bind(read_entry(f, p, le, ifd, tag), LAMBDA r :
    IF ~r.ok THEN [ok |-> FALSE, err |-> r.err, v |-> 0, pos |-> r.pos]
    ELSE IF ~to_u16(r.datum).some THEN [ok |-> FALSE, err |-> msg, v |-> 0, pos |-> r.pos]
    ELSE [ok |-> TRUE, err |-> "", v |-> to_u16(r.datum).v, pos |-> r.pos])

\* read_entry(..)?.to_vec_u16().ok_or(msg) and .to_vec_u32().ok_or(msg)
TagVec(f, p, le, ifd, tag, conv(_), msg) ==
    Bind(read_entry(f, p, le, ifd, tag), LAMBDA r :
    IF ~r.ok THEN [ok |-> FALSE, err |-> r.err, v |-> <<>>, pos |-> r.pos]
    ELSE IF ~conv(r.datum).some THEN [ok |-> FALSE, err |-> msg, v |-> <<>>, pos |-> r.pos]
    ELSE [ok |-> TRUE, err |-> "", v |-> conv(r.datum).v, pos |-> r.pos])

image_width(f, p, le, ifd) == TagU16(f, p, le, ifd, 256, "Failed parse ImageWidth")

image_length(f, p, le, ifd) == TagU16(f, p, le, ifd, 257, "Failed parse ImageLength")

rows_per_strip(f, p, le, ifd) == TagU16(f, p, le, ifd, 278, "Failed parse RowsPerStrip")

samples_per_pixel(f, p, le, ifd) ==
    TagU16(f, p, le, ifd, 277, "Failed parse samples per pixel")

planar_configuration(f, p, le, ifd) ==
    TagU16(f, p, le, ifd, 284, "Failed parse planar configuratoin")

bits_per_sample(f, p, le, ifd) ==
    TagVec(f, p, le, ifd, 258, to_vec_u16, "Failed parse bits per sample")

strip_offsets(f, p, le, ifd) ==
    TagVec(f, p, le, ifd, 273, to_vec_u32, "Failed parse strip offsets")

strip_byte_counts(f, p, le, ifd) ==
    TagVec(f, p, le, ifd, 279, to_vec_u32, "Failed parse strip byte counts")

\* Compression::from_short is Some on None (1), CCITT (2), PackBits (32773)
compression(f, p, le, ifd) ==
    Bind(TagU16(f, p, le, ifd, 259, "Failed parse compression"), LAMBDA r :
    IF r.ok /\ r.v \notin {1, 2, 32773}
    THEN [ok |-> FALSE, err |-> "Failed parse compression", v |-> 0, pos |-> r.pos]
    ELSE r)

(***************************************************************************)
(* TiffParser::read_strip: the decoded bytes of one strip.                 *)
(***************************************************************************)
StripRes(status, err, bytes, pos) ==
    [status |-> status, err |-> err, bytes |-> bytes, pos |-> pos]

\* the rows the strip is decoded as
RowCount(strip_idx, strip_count, il, rps) ==
    IF strip_idx = strip_count - 1 THEN il % rps ELSE rps

read_strip(f, p, le, ifd, strip_idx, bytes_per_pixel) ==
    Bind(strip_offsets(f, p, le, ifd), LAMBDA so :
    Bind(strip_byte_counts(f, so.pos, le, ifd), LAMBDA sbc :
    Bind(rows_per_strip(f, sbc.pos, le, ifd), LAMBDA rps :
    Bind(strip_idx = Len(sbc.v) - 1, LAMBDA last :
    Bind(image_length(f, rps.pos, le, ifd), LAMBDA il :
    Bind(image_width(f, IF last THEN il.pos ELSE rps.pos, le, ifd), LAMBDA iw :
    IF ~so.ok THEN StripRes("err", so.err, <<>>, so.pos)
    ELSE IF strip_idx >= Len(so.v)
    THEN StripRes("err", "Strip offset index out of range", <<>>, so.pos)
    ELSE IF ~sbc.ok THEN StripRes("err", sbc.err, <<>>, sbc.pos)
    ELSE IF strip_idx >= Len(sbc.v)
    THEN StripRes("err", "Strip byte count index out of range", <<>>, sbc.pos)
    ELSE IF ~rps.ok THEN StripRes("err", rps.err, <<>>, rps.pos)
    ELSE IF last /\ ~il.ok THEN StripRes("err", il.err, <<>>, rps.pos)
    ELSE IF last /\ rps.v = 0 THEN StripRes("panic", "", <<>>, rps.pos)
    ELSE IF ~iw.ok THEN StripRes("err", iw.err, <<>>, iw.pos)
    ELSE
      Bind(RowCount(strip_idx, Len(sbc.v), il.v, rps.v) * iw.v * bytes_per_pixel,
           LAMBDA expected_byte_count :
      Bind(so.v[strip_idx + 1], LAMBDA offset :
      Bind(sbc.v[strip_idx + 1], LAMBDA strip_byte_count :
      IF ~CanRead(f, offset, strip_byte_count)
      THEN StripRes("err", "UnexpectedEof", <<>>, Max(offset, Len(f)))
      ELSE
        Bind(Slice(f, offset, offset + strip_byte_count), LAMBDA bytes :
        Bind(compression(f, offset + strip_byte_count, le, ifd), LAMBDA co :
        IF ~co.ok THEN StripRes("err", co.err, <<>>, co.pos)
        ELSE IF co.v = 32773
        THEN Bind(unpackbits(bytes, Len(bytes), Zeros(expected_byte_count),
                             expected_byte_count), LAMBDA u :
             StripRes(u.status, "", u.out, co.pos))
        ELSE IF co.v = 2 THEN StripRes("panic", "", <<>>, co.pos)
        ELSE StripRes("ok", "", bytes, co.pos))))))))))))

(***************************************************************************)
(* Iterator adaptors of the window extractor.                              *)
(***************************************************************************)
RECURSIVE SumSeq(_)
SumSeq(s) == IF s = <<>> THEN 0 ELSE Head(s) + SumSeq(Tail(s))

RECURSIVE Flatten(_)
Flatten(ss) == IF ss = <<>> THEN <<>> ELSE Head(ss) \o Flatten(Tail(ss))

\* s.chunks_exact(n), n > 0: the whole chunks, the remainder dropped
ChunksExact(s, n) == [k \in 1..(Len(s) \div n) |-> SubSeq(s, (k - 1) * n + 1, k * n)]

Skip(s, n) == SubSeq(s, n + 1, Len(s))

Take(s, n) == SubSeq(s, 1, Min(n, Len(s)))

\* s.step_by(n), n > 0: the elements at 0, n, 2n, ..
StepBy(s, n) == [k \in 1..((Len(s) + n - 1) \div n) |-> s[(k - 1) * n + 1]]

(***************************************************************************)
(* TiffReader::open_bytes.                                                 *)
(***************************************************************************)
BytesRes(status, err, bytes, pos) ==
    [status |-> status, err |-> err, bytes |-> bytes, pos |-> pos]

\* the index of the last strip the loop `start_idx..end_idx + 1` reads
EndIdx(y, h, rps) == (y + h) \div rps

\* the samples of channel c among the chunks of the selected rows
ChunkySamples(chunks, c, n_samples) == StepBy(Skip(chunks, c), n_samples)

PlanarSamples(chunks, c, h, w) == Take(Skip(chunks, c * h * w), h * w)

\* the strip's decoded bytes land at the start of the reused buffer
FillBuffer(b, bytes) == Overwrite(b, 0, Take(bytes, Len(b)))

RECURSIVE StripLoop(_, _, _, _, _)
\* q: the values fixed before the loop; one call is one turn of the loop
StripLoop(q, strip_idx, b, out, p) ==
    IF strip_idx > q.end_idx THEN BytesRes("ok", "", out, p)
    ELSE
      LET s_idx == strip_idx * q.rps
          e_idx == (strip_idx + 1) * q.rps
          lower_idx == Max(s_idx, q.y) - s_idx
          upper_idx == Min(e_idx, q.y + q.h) - s_idx
          bytes_per_row == q.bytes_per_pixel * q.iw
          lower_col == q.bytes_per_pixel * q.x
          upper_col == lower_col + q.bytes_per_pixel * q.w
      IN  Bind(read_strip(q.f, p, q.le, q.ifd, strip_idx, q.bytes_per_pixel), LAMBDA st :
          IF st.status # "ok" THEN BytesRes(st.status, st.err, <<>>, st.pos)
          ELSE IF bytes_per_row = 0 THEN BytesRes("panic", "", <<>>, st.pos)
          ELSE
            Bind(FillBuffer(b, st.bytes), LAMBDA filled :
            Bind(Take(Skip(ChunksExact(filled, bytes_per_row), lower_idx),
                      upper_idx - lower_idx), LAMBDA taken :
            IF taken # <<>> /\ upper_col > bytes_per_row
            THEN BytesRes("panic", "", <<>>, st.pos)
            ELSE IF q.bytes_per_sample = 0 THEN BytesRes("panic", "", <<>>, st.pos)
            ELSE
              Bind(Flatten([k \in 1..Len(taken) |->
                               Slice(taken[k], lower_col, upper_col)]), LAMBDA rows :
              Bind(ChunksExact(rows, q.bytes_per_sample), LAMBDA chunks :
              Bind(Flatten(IF q.is_chunky
                           THEN ChunkySamples(chunks, q.c, q.n_samples)
                           ELSE PlanarSamples(chunks, q.c, q.h, q.w)), LAMBDA bytes :
              StripLoop(q, strip_idx + 1, filled, out \o bytes, st.pos)))))))

open_bytes(f, p, le, first_ifd_offset, x, y, c, s, h, w) ==
    Bind(nth_ifd(f, le, first_ifd_offset, s), LAMBDA nth :
    Bind(image_width(f, nth.pos, le, nth.ifd), LAMBDA iw :
    Bind(bits_per_sample(f, iw.pos, le, nth.ifd), LAMBDA bps :
    Bind(planar_configuration(f, bps.pos, le, nth.ifd), LAMBDA pc :
    Bind(rows_per_strip(f, pc.pos, le, nth.ifd), LAMBDA rps :
    IF nth.status # "ok" THEN BytesRes("err", nth.err, <<>>, nth.pos)
    ELSE IF ~iw.ok THEN BytesRes("err", iw.err, <<>>, iw.pos)
    ELSE IF ~bps.ok THEN BytesRes("err", bps.err, <<>>, bps.pos)
    ELSE IF c >= Len(bps.v) THEN BytesRes("panic", "", <<>>, bps.pos)
    ELSE IF ~pc.ok THEN BytesRes("err", pc.err, <<>>, pc.pos)
    ELSE IF ~rps.ok THEN BytesRes("err", rps.err, <<>>, rps.pos)
    ELSE IF rps.v = 0 THEN BytesRes("panic", "", <<>>, rps.pos)
    ELSE
      LET is_chunky == (pc.v = 1)
          bytes_per_pixel == IF is_chunky THEN SumSeq(bps.v) \div 8
                             ELSE bps.v[c + 1] \div 8
      IN  StripLoop([f |-> f, le |-> le, ifd |-> nth.ifd, x |-> x, y |-> y, c |-> c,
                     h |-> h, w |-> w, iw |-> iw.v, rps |-> rps.v,
                     n_samples |-> Len(bps.v),
                     bytes_per_sample |-> bps.v[c + 1] \div 8,
                     is_chunky |-> is_chunky,
                     bytes_per_pixel |-> bytes_per_pixel,
                     end_idx |-> EndIdx(y, h, rps.v)],
                    y \div rps.v, Zeros(bytes_per_pixel * iw.v * rps.v), <<>>,
                    rps.pos))))))

(***************************************************************************)
(* TiffReader::metadata and FormatReader::open_pixels.                     *)
(***************************************************************************)
RECURSIVE NIfdsLoop(_, _, _, _, _, _)
\* the while loop of n_ifds as a function of the file; it has no value on a
\* chain that cycles, which shows as more reads than the file has offsets
NIfdsLoop(f, le, next, count, pos, reads_left) ==
    IF next = 0 THEN [status |-> "ok", err |-> "", count |-> count, pos |-> pos]
    ELSE IF reads_left = 0 THEN [status |-> "hang", err |-> "", count |-> count, pos |-> pos]
    ELSE Bind(read_ifd(f, next, le), LAMBDA r :
         IF ~r.ok THEN [status |-> "err", err |-> r.err, count |-> count, pos |-> r.pos]
         ELSE NIfdsLoop(f, le, r.ifd.next_ifd_offset, count + 1, r.pos, reads_left - 1))

n_ifds(f, le, first_ifd_offset) ==
    Bind(read_ifd(f, first_ifd_offset, le), LAMBDA r :
    IF ~r.ok THEN [status |-> "err", err |-> r.err, count |-> 0, pos |-> r.pos]
    ELSE NIfdsLoop(f, le, r.ifd.next_ifd_offset, 1, r.pos, Len(f)))

MetaRes(status, err, series, pos) ==
    [status |-> status, err |-> err, series |-> series, pos |-> pos]

RECURSIVE MetaLoop(_, _, _, _, _, _)
\* series[i + 1] holds what the maps dimensions and bits_per_pixel hold for IFD i
MetaLoop(f, le, first_ifd_offset, i, ifd_count, series) ==
    IF i >= ifd_count THEN MetaRes("ok", "", series, 0)
    ELSE
      Bind(nth_ifd(f, le, first_ifd_offset, i), LAMBDA nth :
      Bind(image_width(f, nth.pos, le, nth.ifd), LAMBDA w :
      Bind(image_length(f, w.pos, le, nth.ifd), LAMBDA h :
      Bind(samples_per_pixel(f, h.pos, le, nth.ifd), LAMBDA c :
      Bind(bits_per_sample(f, c.pos, le, nth.ifd), LAMBDA bpps :
      IF nth.status # "ok" THEN MetaRes("err", nth.err, <<>>, nth.pos)
      ELSE IF ~w.ok THEN MetaRes("err", w.err, <<>>, w.pos)
      ELSE IF ~h.ok THEN MetaRes("err", h.err, <<>>, h.pos)
      ELSE IF ~c.ok THEN MetaRes("err", c.err, <<>>, c.pos)
      ELSE IF ~bpps.ok THEN MetaRes("err", bpps.err, <<>>, bpps.pos)
      ELSE Bind(MetaLoop(f, le, first_ifd_offset, i + 1, ifd_count,
                         Append(series, [dim |-> <<w.v, h.v, c.v>>, bps |-> bpps.v])),
                LAMBDA m :
           IF m.status = "ok" /\ i + 1 >= ifd_count
           THEN MetaRes("ok", "", m.series, bpps.pos)
           ELSE m))))))

metadata(f, le, first_ifd_offset) ==
    Bind(n_ifds(f, le, first_ifd_offset), LAMBDA n :
    IF n.status # "ok" THEN MetaRes(n.status, n.err, <<>>, n.pos)
    ELSE Bind(MetaLoop(f, le, first_ifd_offset, 0, n.count, <<>>), LAMBDA m :
         IF m.status = "ok" /\ n.count = 0 THEN MetaRes("ok", "", <<>>, n.pos) ELSE m))

\* Metadata::bits_per_pixel((c, s)) is Some
HasBitsPerPixel(series, c, s) ==
    /\ s >= 0 /\ c >= 0
    /\ s < Len(series)
    /\ c < Len(series[s + 1].bps)

\* u16::from_le_bytes / u16::from_be_bytes of a chunk of two bytes
PairValue(a, le) == IF le THEN a[1] + 256 * a[2] ELSE 256 * a[1] + a[2]

PixelRes(status, err, variant, v, pos) ==
    [status |-> status, err |-> err, variant |-> variant, v |-> v, pos |-> pos]

open_pixels(f, p, le, first_ifd_offset, x, y, c, s, h, w) ==
    Bind(open_bytes(f, p, le, first_ifd_offset, x, y, c, s, h, w), LAMBDA b :
    Bind(metadata(f, le, first_ifd_offset), LAMBDA md :
    IF b.status # "ok" THEN PixelRes(b.status, b.err, "", <<>>, b.pos)
    ELSE IF md.status # "ok" THEN PixelRes(md.status, md.err, "", <<>>, md.pos)
    ELSE IF ~HasBitsPerPixel(md.series, c, s)
    THEN PixelRes("err", "Error reading bpp", "", <<>>, md.pos)
    ELSE Bind(md.series[s + 1].bps[c + 1], LAMBDA bbp :
         IF bbp = 8 THEN PixelRes("ok", "", "U8", b.bytes, md.pos)
         ELSE IF bbp = 16
         THEN PixelRes("ok", "", "U16",
                       [k \in 1..(Len(b.bytes) \div 2) |->
                           PairValue(ChunksExact(b.bytes, 2)[k], le)],
                       md.pos)
         ELSE PixelRes("err", "Unsupported PixelSlice Format", "", <<>>, md.pos))))

\* TiffReader::open_bytes(origin, h, w), a whole call
OpenBytes(x, y, c, s, h, w) ==
    /\ parser.state = "open"
    /\ Idle
    /\ walk.pc = "idle"
    /\ \E r \in {open_bytes(file, fp, little, parser.first_ifd_offset, x, y, c, s, h, w)} :
           /\ res' = Result("open_bytes", <<x, y, c, s, h, w>>, r.status, r.err, r.bytes)
           /\ fp' = r.pos
    /\ UNCHANGED <<file, little, parser, walk, buff, dec>>

\* FormatReader::open_pixels(origin, h, w), a whole call
OpenPixels(x, y, c, s, h, w) ==
    /\ parser.state = "open"
    /\ Idle
    /\ walk.pc = "idle"
    /\ \E r \in {open_pixels(file, fp, little, parser.first_ifd_offset, x, y, c, s, h, w)} :
           /\ res' = Result("open_pixels", <<x, y, c, s, h, w>>, r.status, r.err,
                            [variant |-> r.variant, v |-> r.v])
           /\ fp' = r.pos
    /\ UNCHANGED <<file, little, parser, walk, buff, dec>>

(***************************************************************************)
(* Image files.  An image is [iw, il, bps, pc, rps, comp]; byte t of the   *)
(* pixel at (row, col) has the value of its position in the image, plus 1, *)
(* so that every byte of an image is different.  Chunky strips hold whole  *)
(* pixels; planar strips hold one sample, plane after plane.  PackBits     *)
(* strips are stored as one literal.                                       *)
(***************************************************************************)
Image(iw, il, bps, pc, rps, comp) ==
    [iw |-> iw, il |-> il, bps |-> bps, pc |-> pc, rps |-> rps, comp |-> comp]

PixelBytes(img) == SumSeq(img.bps) \div 8

\* the offset of sample c (0-based) in its pixel
SampleOffset(bps, c) == SumSeq(SubSeq(bps, 1, c)) \div 8

PixelByte(img, row, col, t) == (row * img.iw + col) * PixelBytes(img) + t + 1

SampleBytes(img, row, col, c) ==
    [b \in 1..(img.bps[c + 1] \div 8) |->
        PixelByte(img, row, col, SampleOffset(img.bps, c) + b - 1)]

\* plane = -1: the whole pixels of the row; plane = c: its samples c
RawRow(img, plane, row) ==
    Flatten([col \in 1..img.iw |->
                IF plane < 0
                THEN [t \in 1..PixelBytes(img) |-> PixelByte(img, row, col - 1, t - 1)]
                ELSE SampleBytes(img, row, col - 1, plane)])

StripsPerPlane(img) == (img.il + img.rps - 1) \div img.rps

RawStrip(img, plane, k) ==
    Flatten([r \in 1..(Min(img.il, (k + 1) * img.rps) - k * img.rps) |->
                RawRow(img, plane, k * img.rps + r - 1)])

StoredStrip(img, raw) == IF img.comp = 32773 THEN <<Len(raw) - 1>> \o raw ELSE raw

StripList(img) ==
    LET per == StripsPerPlane(img)
        planes == IF img.pc = 1 THEN 1 ELSE Len(img.bps)
    IN  [n \in 1..(planes * per) |->
            StoredStrip(img, RawStrip(img,
                                      IF img.pc = 1 THEN 0 - 1 ELSE (n - 1) \div per,
                                      (n - 1) % per))]

ImageEntries(img, offsets, counts) ==
    <<Desc(256, 3, <<img.iw>>), Desc(257, 3, <<img.il>>), Desc(258, 3, img.bps),
      Desc(259, 3, <<img.comp>>), Desc(273, 4, offsets), Desc(277, 3, <<Len(img.bps)>>),
      Desc(278, 3, <<img.rps>>), Desc(279, 4, counts), Desc(284, 3, <<img.pc>>)>>

StripLens(img) == [n \in 1..Len(StripList(img)) |-> Len(StripList(img)[n])]

ImageIfdSize(img) == IfdSize(ImageEntries(img, StripLens(img), StripLens(img)), FALSE)

ImageSize(img) == ImageIfdSize(img) + SumSeq(StripLens(img))

EncodeImage(img, base, next, le) ==
    LET lens == StripLens(img)
        data == base + ImageIfdSize(img)
        offsets == [n \in 1..Len(lens) |-> data + SumSeq(SubSeq(lens, 1, n - 1))]
    IN  EncodeIfd(ImageEntries(img, offsets, lens), base, next, le, FALSE)
        \o Flatten(StripList(img))

\* a classic TIFF of two series: img, then a 1 x 1 image of one 16-bit sample
SecondImage == Image(1, 1, <<16>>, 1, 1, 1)

EncodeImages(img, le) ==
    FileHeader(le, FALSE, FALSE)
    \o EncodeImage(img, 8, 8 + ImageSize(img), le)
    \o EncodeImage(SecondImage, 8 + ImageSize(img), 0, le)

MaxW == 2

MaxL == 3

MaxC == 2

SampleLayouts == {<<8>>, <<16>>, <<8, 8>>, <<16, 16, 16>>, <<8, 16>>, <<32>>}

PlanarLayouts == {<<16>>, <<8, 8>>}

Images ==
    {Image(MaxW, MaxL, bps, 1, rps, 1) : bps \in SampleLayouts, rps \in 1..(MaxL + 1)}
    \cup {Image(MaxW, MaxL, bps, 2, rps, 1) : bps \in PlanarLayouts, rps \in 1..(MaxL + 1)}

PackedImages ==
    {Image(MaxW, MaxL, bps, 1, rps, 32773) : bps \in {<<8>>, <<16, 16>>}, rps \in 1..MaxL}

BigEndianImages ==
    {Image(MaxW, MaxL, bps, 1, 2, 1) : bps \in {<<16>>, <<16, 16, 16>>}}

ImageFiles ==
    {EncodeImages(img, TRUE) : img \in Images \cup PackedImages}
    \cup {EncodeImages(img, FALSE) : img \in BigEndianImages}

\* the requests made: every window of series 0 up to one past the image's
\* edges, zero sizes and channels past the last included; the pixel of
\* series 1; a series past the chain
Requests ==
    {<<x, y, c, 0, h, w>> :
        x \in 0..MaxW, y \in 0..MaxL, c \in 0..MaxC, h \in 0..MaxL, w \in 0..MaxW}
    \cup {<<0, 0, c, 1, h, 1>> : c \in 0..1, h \in 0..2}
    \cup {<<0, 0, 0, 2, 1, 1>>}

Init ==
    /\ file \in ImageFiles
    /\ fp = 0
    /\ little = FALSE
    /\ parser = Unopened
    /\ res = NoRes
    /\ walk = NoWalk
    /\ buff = <<>>
    /\ dec = NoDec

Next ==
    \/ New
    \/ \E r \in Requests : OpenBytes(r[1], r[2], r[3], r[4], r[5], r[6])
    \/ \E r \in Requests : OpenPixels(r[1], r[2], r[3], r[4], r[5], r[6])

Spec == Init /\ [][Next]_vars

(***************************************************************************)
(* The request of the last call and what the file's tags say of its image. *)
(***************************************************************************)
Req ==
    [x |-> res.args[1], y |-> res.args[2], c |-> res.args[3], s |-> res.args[4],
     h |-> res.args[5], w |-> res.args[6]]

ReqWalk == nth_ifd(file, little, parser.first_ifd_offset, Req.s)

ReqWidth == image_width(file, 0, little, ReqWalk.ifd).v

ReqLength == image_length(file, 0, little, ReqWalk.ifd).v

ReqBps == bits_per_sample(file, 0, little, ReqWalk.ifd).v

ReqRps == rows_per_strip(file, 0, little, ReqWalk.ifd).v

ReqOffsets == strip_offsets(file, 0, little, ReqWalk.ifd).v

ReqIsChunky == planar_configuration(file, 0, little, ReqWalk.ifd).v = 1

ReqIsRaw == compression(file, 0, little, ReqWalk.ifd).v = 1

\* the series exists and the window lies in its image
ValidWindow ==
    /\ ReqWalk.status = "ok"
    /\ Req.x + Req.w <= ReqWidth
    /\ Req.y + Req.h <= ReqLength
    /\ Req.c < Len(ReqBps)
    /\ Req.h > 0
    /\ Req.w > 0

\* byte t of the pixel at (row, col), as an uncompressed chunky file stores it
StoredByte(row, col, t) ==
    file[ReqOffsets[row \div ReqRps + 1]
         + ((row % ReqRps) * ReqWidth + col) * (SumSeq(ReqBps) \div 8) + t + 1]

\* the bytes of sample c of the window's pixels, row by row
WindowSamples ==
    Flatten([n \in 1..(Req.h * Req.w) |->
                [t \in 1..(ReqBps[Req.c + 1] \div 8) |->
                    StoredByte(Req.y + ((n - 1) \div Req.w), Req.x + ((n - 1) % Req.w),
                               SampleOffset(ReqBps, Req.c) + t - 1)]])

\* C1: for every valid window open_bytes returns a byte vector of length
\* h * w * (bits_per_sample[c] / 8), chunky or planar, for any rows_per_strip,
\* whether or not y + h falls on a strip boundary or in the last strip.
C1_WindowLength ==
    (res.op = "open_bytes" /\ ValidWindow) =>
        /\ res.status = "ok"
        /\ Len(res.val) = Req.h * Req.w * (ReqBps[Req.c + 1] \div 8)

\* C2: a window that is not valid (x + w > image_width, y + h > image_length,
\* c >= bits_per_sample.len(), w = 0 or h = 0) makes open_bytes return an
\* error; it neither panics nor returns a buffer.
C2_InvalidWindowRejected ==
    (res.op = "open_bytes" /\ ReqWalk.status = "ok" /\ ~ValidWindow) =>
        res.status = "err"

\* C7: open_pixels returns the bytes of open_bytes reinterpreted by the depth
\* of (c, s): 8 gives U8 with the bytes unchanged, 16 gives U16 with h * w
\* elements paired in the file's byte order, any other depth fails as
\* unsupported, and a failure of open_bytes is returned unchanged.
C7_PixelsReinterpretBytes ==
    (res.op = "open_pixels" /\ ValidWindow) =>
        LET b == open_bytes(file, 0, little, parser.first_ifd_offset,
                            Req.x, Req.y, Req.c, Req.s, Req.h, Req.w)
            depth == ReqBps[Req.c + 1]
        IN  IF b.status # "ok" THEN res.status = b.status /\ res.err = b.err
            ELSE IF depth = 8
            THEN res.status = "ok" /\ res.val = [variant |-> "U8", v |-> b.bytes]
            ELSE IF depth = 16
            THEN /\ res.status = "ok"
                 /\ res.val.variant = "U16"
                 /\ Len(res.val.v) = Req.h * Req.w
                 /\ \A k \in 1..(Req.h * Req.w) :
                        res.val.v[k] = PairValue(<<b.bytes[2 * k - 1], b.bytes[2 * k]>>, little)
            ELSE res.status = "err" /\ res.err = "Unsupported PixelSlice Format"

\* C10: under chunky configuration the bytes open_bytes returns are, row by
\* row over the window, the bytes of sample c of each pixel, found in the
\* pixel at byte offset (sum of bps[0..c]) / 8, also when the samples have
\* unequal widths.
C10_ChunkySampleBytes ==
    (/\ res.op = "open_bytes"
     /\ ValidWindow
     /\ ReqIsChunky
     /\ ReqIsRaw
     /\ res.status = "ok") =>
        res.val = WindowSamples

\* the samples of one width: the selection of sample c is the stored one
ChunkyUniformSampleBytes ==
    (/\ res.op = "open_bytes"
     /\ ValidWindow
     /\ ReqIsChunky
     /\ ReqIsRaw
     /\ \A k \in 1..Len(ReqBps) : ReqBps[k] = ReqBps[1]
     /\ res.status = "ok") =>
        res.val = WindowSamples

(***************************************************************************)
(* The strips a window asks for.                                           *)
(***************************************************************************)
\* the strips the loop `start_idx..end_idx + 1` of open_bytes asks
\* read_strip for, when none of them fails
StripsAsked(y, h, rps) == (y \div rps)..EndIdx(y, h, rps)

\* C11: open_bytes reads exactly the strips with index in
\* [y / rps, (y + h - 1) / rps]: when y + h is a multiple of rows_per_strip
\* the strip (y + h) / rps is not read, and a window ending at the last row
\* of an image whose length is a multiple of rows_per_strip does not fail
\* with a strip index out of range.
C11_StripRange ==
    (res.op = "open_bytes" /\ ValidWindow) =>
        /\ StripsAsked(Req.y, Req.h, ReqRps)
               = (Req.y \div ReqRps)..((Req.y + Req.h - 1) \div ReqRps)
        /\ res.err # "Strip offset index out of range"

(***************************************************************************)
(* Sequences of calls on one parser: the IFD walks, the tag accessors,     *)
(* read_strip and open_bytes, each starting where the call before it left  *)
(* the file pointer.  The IFD handed to an accessor or to read_strip is    *)
(* the one nth_ifd(s) yields.                                              *)
(***************************************************************************)
AccessorNames == {"image_width", "bits_per_sample", "strip_offsets", "strip_byte_counts"}

\* the accessor of that name, called with the pointer at p
Accessor(name, f, p, le, ifd) ==
    CASE name = "image_width" -> image_width(f, p, le, ifd)
      [] name = "bits_per_sample" -> bits_per_sample(f, p, le, ifd)
      [] name = "strip_offsets" -> strip_offsets(f, p, le, ifd)
      [] name = "strip_byte_counts" -> strip_byte_counts(f, p, le, ifd)

\* one of the tag accessors of TiffParser, a whole call; the result records,
\* after the arguments, the pointer the call found
TagRead(name, s) ==
    /\ parser.state = "open"
    /\ Idle
    /\ walk.pc = "idle"
    /\ \E nth \in {nth_ifd(file, little, parser.first_ifd_offset, s)} :
           /\ nth.status = "ok"
           /\ \E r \in {Accessor(name, file, fp, little, nth.ifd)} :
                  /\ res' = Result(name, <<s, fp>>, IF r.ok THEN "ok" ELSE "err", r.err, r.v)
                  /\ fp' = r.pos
    /\ UNCHANGED <<file, little, parser, walk, buff, dec>>

\* TiffParser::read_strip(ifd, strip_idx, bytes_per_pixel), a whole call
ReadStrip(s, strip_idx, bytes_per_pixel) ==
    /\ parser.state = "open"
    /\ Idle
    /\ walk.pc = "idle"
    /\ \E nth \in {nth_ifd(file, little, parser.first_ifd_offset, s)} :
           /\ nth.status = "ok"
           /\ \E r \in {read_strip(file, fp, little, nth.ifd, strip_idx, bytes_per_pixel)} :
                  /\ res' = Result("read_strip", <<s, strip_idx, bytes_per_pixel, fp>>,
                                   r.status, r.err, r.bytes)
                  /\ fp' = r.pos
    /\ UNCHANGED <<file, little, parser, walk, buff, dec>>

MaxStrip == 2

MaxPixel == 2

CallImages ==
    {Image(MaxW, MaxL, <<8>>, 1, rps, 32773) : rps \in 1..MaxL}
    \cup {Image(MaxW, MaxL, <<8, 8>>, 1, rps, 1) : rps \in 2..MaxL}

CallFiles == {EncodeImages(img, TRUE) : img \in CallImages}

CallRequests == {<<0, y, 0, 0, 1, w>> : y \in 0..(MaxL - 1), w \in 1..MaxW}

InitCalls ==
    /\ file \in CallFiles
    /\ fp = 0
    /\ little = FALSE
    /\ parser = Unopened
    /\ res = NoRes
    /\ walk = NoWalk
    /\ buff = <<>>
    /\ dec = NoDec

NextCalls ==
    \/ New
    \/ \E i \in (0 - 1)..2 : NthIfd(i)
    \/ NIfdsStart
    \/ NIfdsStep
    \/ NIfdsReturn
    \/ \E name \in AccessorNames, s \in 0..1 : TagRead(name, s)
    \/ \E s \in 0..1, k \in 0..MaxStrip, b \in 1..MaxPixel : ReadStrip(s, k, b)
    \/ \E r \in CallRequests : OpenBytes(r[1], r[2], r[3], r[4], r[5], r[6])
    \/ Return

SpecCalls == InitCalls /\ [][NextCalls]_vars

\* the IFD of series s, as nth_ifd yields it
SeriesIfd(s) == nth_ifd(file, little, parser.first_ifd_offset, s).ifd

\* the rows of strip strip_idx of an image of il rows in strips of rps rows:
\* the last strip holds the rows that remain
RowsInStrip(strip_idx, strip_count, il, rps) ==
    IF strip_idx = strip_count - 1 /\ il % rps # 0 THEN il % rps ELSE rps

\* C12: a strip is decoded as rows_per_strip rows, except the last, which is
\* decoded as image_length mod rows_per_strip rows when that is not zero and
\* as rows_per_strip rows when it is (never 0 rows); the decoded byte count
\* is bytes_per_row times that row count.
C12_StripRows ==
    (res.op = "read_strip"
     /\ res.args[2] < Len(strip_byte_counts(file, 0, little, SeriesIfd(res.args[1])).v)) =>
        LET ifd == SeriesIfd(res.args[1])
            strip_count == Len(strip_byte_counts(file, 0, little, ifd).v)
            il == image_length(file, 0, little, ifd).v
            iw == image_width(file, 0, little, ifd).v
            rps == rows_per_strip(file, 0, little, ifd).v
            rows == RowsInStrip(res.args[2], strip_count, il, rps)
        IN  /\ RowCount(res.args[2], strip_count, il, rps) = rows
            /\ (res.status = "ok" /\ compression(file, 0, little, ifd).v = 32773) =>
                   Len(res.val) = rows * iw * res.args[3]

(***************************************************************************)
(* The end of a PackBits decode.                                           *)
(***************************************************************************)
\* the loop of unpackbits_stream is never starved of its next turn
SpecPackBitsFair == SpecPackBits /\ WF_vars(NextPackBits)

\* every decode comes to its end
DecodeEnds == <>(dec.pc = "done")

\* every turn of the loop of unpackbits_stream consumes input
TurnConsumesInput == [][(dec.pc = "loop" /\ dec'.pc = "loop") => fp' > fp]_vars

\* the output index and the input left when the call ended
DecodedUpTo == IF res.op = "unpackbits" THEN res.val.out_idx ELSE dec.curr_byte_idx

InputLeft ==
    IF res.op = "unpackbits" THEN Len(file) - res.val.in_idx ELSE available(file, fp)

\* C13: the decoder always comes to Done, for every input and every expected
\* output length: it stops once the output index has reached the expected
\* length or the input is exhausted, and when the input ends early the
\* output bytes not yet written keep the zeros the buffer held.
C13_DecoderReachesDone ==
    dec.pc = "done" =>
        /\ res.status \in {"ok", "err"}
        /\ res.status = "ok" =>
               (DecodedUpTo >= dec.expected_byte_count \/ InputLeft = 0)
        /\ \A k \in (DecodedUpTo + 1)..Len(buff) : buff[k] = 0

\* the same of unpackbits_stream alone
StreamDecoderReachesDone == res.op # "unpackbits" => C13_DecoderReachesDone

(***************************************************************************)
(* C14: every parser call is self-positioning.  Whatever calls came        *)
(* before, failed ones included, and wherever they left the file pointer,  *)
(* the result of nth_ifd(i), of a tag accessor, of read_strip and of       *)
(* open_bytes is the result of the same call on the same file with the     *)
(* pointer at the start of the file: it depends on the file contents and   *)
(* the arguments only.  A successful header parse leaves the pointer       *)
(* where it found it (the start, for a stream just opened).                *)
(***************************************************************************)
C14_CallsSelfPositioning ==
    /\ (res.op = "new" /\ res.status = "ok") => fp = 0
    /\ res.op = "nth_ifd" =>
           LET r == nth_ifd(file, little, parser.first_ifd_offset, res.args[1])
           IN  /\ res.status = r.status
               /\ res.err = r.err
               /\ res.val = [ifd |-> r.ifd, trail |-> r.trail]
    /\ res.op \in AccessorNames =>
           LET r == Accessor(res.op, file, 0, little, SeriesIfd(res.args[1]))
           IN  /\ res.status = (IF r.ok THEN "ok" ELSE "err")
               /\ res.err = r.err
               /\ res.val = r.v
    /\ res.op = "read_strip" =>
           LET r == read_strip(file, 0, little, SeriesIfd(res.args[1]),
                               res.args[2], res.args[3])
           IN  /\ res.status = r.status
               /\ res.err = r.err
               /\ res.val = r.bytes
    /\ res.op = "open_bytes" =>
           LET r == open_bytes(file, 0, little, parser.first_ifd_offset,
                               res.args[1], res.args[2], res.args[3],
                               res.args[4], res.args[5], res.args[6])
           IN  /\ res.status = r.status
               /\ res.err = r.err
               /\ res.val = r.bytes

\* a strip_offsets payload stored at an offset was read by a call that found
\* the pointer where an earlier call had left it
C14_Witness ==
    /\ res.op = "strip_offsets"
    /\ res.status = "ok"
    /\ Len(res.val) > 1
    /\ res.args[2] # 0

(***************************************************************************)
(* C15: n_ifds and nth_ifd agree on a file whose IFD chain is acyclic.     *)
(* When n_ifds returns N, N >= 1, nth_ifd(i) succeeds exactly for          *)
(* 0 <= i < N and fails for every other i, a negative i included, and a    *)
(* successful nth_ifd(i) returns the IFD at the offset reached after i     *)
(* links.                                                                  *)
(***************************************************************************)
\* what n_ifds returns on the file; a walk of more than MaxWalk reads is a
\* chain that cycles
IfdCount ==
    Bind(read_ifd(file, parser.first_ifd_offset, little), LAMBDA r :
    IF ~r.ok THEN [status |-> "err", err |-> r.err, count |-> 0, pos |-> r.pos]
    ELSE NIfdsLoop(file, little, r.ifd.next_ifd_offset, 1, r.pos, MaxWalk))

C15_CountAndIndexAgree ==
    (res.op = "nth_ifd" /\ IfdCount.status = "ok") =>
        LET i == res.args[1]
        IN  /\ IfdCount.count >= 1
            /\ (res.status = "ok") <=> (0 <= i /\ i < IfdCount.count)
            /\ (res.status = "ok" /\ i >= 0) => res.val.ifd = IfdAt(OffsetAfter(i)).ifd

\* the same for the indices from 0 up
CountAndIndexAgreeFromZero ==
    (res.op = "nth_ifd" /\ res.args[1] >= 0) => C15_CountAndIndexAgree

\* metadata records a series for every IFD n_ifds counts and for no other
MetadataCoversSeries ==
    (parser.state = "open" /\ IfdCount.status = "ok") =>
        LET m == metadata(file, little, parser.first_ifd_offset)
        IN  m.status = "ok" => Len(m.series) = IfdCount.count

====
